---- MODULE Spec2Model ----
(***************************************************************************)
(* A model of rscalc: the recursive-descent parser (src/src/parser.rs) and *)
(* the tree-walking evaluator "Computer" (src/src/computer.rs).            *)
(*                                                                         *)
(* Numbers.  The evaluator is generic over a number type T; the default is *)
(* f64.  A number is modelled as a pair <<n, d>>:                          *)
(*   d >= 1  the rational n/d in lowest terms (exact arithmetic);          *)
(*   <<1,0>> the constant pi, <<2,0>> the constant e (irrational: they can *)
(*           be stored, read, compared and tested, not calculated with);   *)
(*   <<0,0>> a value outside the modelled range (magnitude above Limit,    *)
(*           a division by zero, an irrational result).  An evaluation     *)
(*           that meets such a value is not part of the model: the guard   *)
(*           of the calling action excludes it.                            *)
(***************************************************************************)
EXTENDS Integers, Sequences, FiniteSets, TLC

\* Bounds of the model.
MaxCalls == 2
MaxLen == 3
Limit == 2000

----------------------------------------------------------------------------
(* Numbers *)

OutOfRange == <<0, 0>>
PI == <<1, 0>>
E == <<2, 0>>
Int2Num(i) == <<i, 1>>
Zero == Int2Num(0)
One == Int2Num(1)
Half5 == <<5, 2>>

IsFinite(a) == a[2] > 0

IntAbs(i) == IF i < 0 THEN -i ELSE i

RECURSIVE GCD(_, _)
GCD(a, b) == IF b = 0 THEN a ELSE GCD(b, a % b)

\* n/d (d > 0) in lowest terms, or OutOfRange when it leaves the modelled range.
Norm(n, d) ==
    LET g == GCD(IntAbs(n), d)
        nn == n \div g
        dd == d \div g
    IN  IF IntAbs(nn) > Limit \/ dd > Limit THEN OutOfRange ELSE <<nn, dd>>

NumNeg(a) == IF IsFinite(a) THEN <<-a[1], a[2]>> ELSE OutOfRange

NumAdd(a, b) ==
    IF IsFinite(a) /\ IsFinite(b) THEN Norm(a[1] * b[2] + b[1] * a[2], a[2] * b[2])
    ELSE OutOfRange

NumSub(a, b) ==
    IF IsFinite(a) /\ IsFinite(b) THEN Norm(a[1] * b[2] - b[1] * a[2], a[2] * b[2])
    ELSE OutOfRange

NumMul(a, b) ==
    IF IsFinite(a) /\ IsFinite(b) THEN Norm(a[1] * b[1], a[2] * b[2])
    ELSE OutOfRange

NumDiv(a, b) ==
    IF IsFinite(a) /\ IsFinite(b) /\ b[1] # 0
    THEN IF b[1] > 0 THEN Norm(a[1] * b[2], a[2] * b[1])
                     ELSE Norm(-(a[1] * b[2]), a[2] * (-b[1]))
    ELSE OutOfRange

\* A rational that orders pi and e correctly against every modelled rational
\* the evaluator compares them with (0 and 1).
Approx(a) == IF a = PI THEN <<355, 113>> ELSE IF a = E THEN <<193, 71>> ELSE a

NumLt(a, b) == Approx(a)[1] * Approx(b)[2] < Approx(b)[1] * Approx(a)[2]

NumEq(a, b) == a = b

is_integer(a) == IsFinite(a) /\ a[2] = 1

abs(a) == IF IsFinite(a) THEN <<IntAbs(a[1]), a[2]>> ELSE a

RECURSIVE PowNat(_, _)
PowNat(a, k) ==
    IF k = 0 THEN One
    ELSE LET p == PowNat(a, k - 1) IN IF IsFinite(p) THEN NumMul(p, a) ELSE OutOfRange

pow(a, b) ==
    IF ~(IsFinite(a) /\ is_integer(b)) THEN OutOfRange
    ELSE IF b[1] >= 0 THEN (IF b[1] > Limit THEN OutOfRange ELSE PowNat(a, b[1]))
    ELSE IF a[1] = 0 \/ -b[1] > Limit THEN OutOfRange
    ELSE LET p == PowNat(a, -b[1]) IN IF IsFinite(p) THEN NumDiv(One, p) ELSE OutOfRange

----------------------------------------------------------------------------
(* Expression trees: parser.rs, enum Expr *)

BoolOp(kwd, l, r) == [tag |-> "BoolOp", kwd |-> kwd, l |-> l, r |-> r]
Bool(b) == [tag |-> "Bool", b |-> b]
BoolNot(x) == [tag |-> "BoolNot", e |-> x]
BinCmp(op, l, r) == [tag |-> "BinCmp", op |-> op, l |-> l, r |-> r]
BinOp(op, l, r) == [tag |-> "BinOp", op |-> op, l |-> l, r |-> r]
Pow(l, r) == [tag |-> "Pow", l |-> l, r |-> r]
Neg(x) == [tag |-> "Neg", e |-> x]
Abs(x) == [tag |-> "Abs", e |-> x]
Factorial(x) == [tag |-> "Factorial", e |-> x]
Function(id, x) == [tag |-> "Function", id |-> id, e |-> x]
Assignment(id, x) == [tag |-> "Assignment", id |-> id, e |-> x]
Constant(n) == [tag |-> "Constant", num |-> n]
Identifier(id) == [tag |-> "Identifier", id |-> id]

\* Expr::replace(old, new, ignore_fields): the tree self becomes and the count
\* the call returns.
RECURSIVE replace(_, _, _, _)
replace(self, old, new, ignore_fields) ==
    IF (IF ignore_fields THEN self.tag = old.tag ELSE self = old)
    THEN [tree |-> new, replaced |-> 1]
    ELSE CASE self.tag \in {"BinOp", "Pow"} ->
                  LET a == replace(self.l, old, new, ignore_fields)
                      b == replace(self.r, old, new, ignore_fields)
                  IN  [tree |-> [self EXCEPT !.l = a.tree, !.r = b.tree],
                       replaced |-> a.replaced + b.replaced]
           [] self.tag \in {"Neg", "Function"} ->
                  LET a == replace(self.e, old, new, ignore_fields)
                  IN  [tree |-> [self EXCEPT !.e = a.tree], replaced |-> a.replaced]
           [] OTHER -> [tree |-> self, replaced |-> 0]

----------------------------------------------------------------------------
(* The evaluator: computer.rs *)

\* enum ComputeError
InvalidFactorial == [tag |-> "InvalidFactorial"]
VariableIsConstant(id) == [tag |-> "VariableIsConstant", id |-> id]
UnrecognizedIdentifier(id) == [tag |-> "UnrecognizedIdentifier", id |-> id]
UnrecognizedFunctionIdentifier(id) == [tag |-> "UnrecognizedFunctionIdentifier", id |-> id]

\* HashMap::insert on the variable store: a function from the bound names to
\* <<value, is_constant>>.
Insert(map, k, v) == [n \in (DOMAIN map) \cup {k} |-> IF n = k THEN v ELSE map[n]]

EmptyMap == [n \in {} |-> 0]

\* impl Default for Computer<f64>: the seeded variables.
DefaultVariables == Insert(Insert(EmptyMap, "pi", <<PI, TRUE>>), "e", <<E, TRUE>>)

\* The default function store without its logarithm.
DefaultFunctions_NoLog ==
    Insert(Insert(Insert(Insert(EmptyMap, "sqrt", "sqrt"), "sin", "sin"),
                  "cos", "cos"), "tan", "tan")

\* impl Default for Computer<f64>: the seeded functions, each registered name
\* mapped to the f64 method its closure calls.
DefaultFunctions ==
    Insert(Insert(Insert(Insert(Insert(EmptyMap, "sqrt", "sqrt"), "sin", "sin"),
                         "cos", "cos"), "tan", "tan"), "log", "log10")

\* The integer square root of n when n is a perfect square, else -1.
ISqrt(n) == IF \E r \in 0..n : r * r = n THEN CHOOSE r \in 0..n : r * r = n ELSE -1

\* The closures of the default function store, on the arguments whose result
\* is a modelled number.
ApplyFn(method, v) ==
    CASE method = "sqrt" ->
            IF IsFinite(v) /\ v[1] >= 0 /\ ISqrt(v[1]) >= 0 /\ ISqrt(v[2]) >= 0
            THEN <<ISqrt(v[1]), ISqrt(v[2])>> ELSE OutOfRange
      [] method = "sin" -> IF v = Zero THEN Zero ELSE OutOfRange
      [] method = "cos" -> IF v = Zero THEN One ELSE OutOfRange
      [] method = "tan" -> IF v = Zero THEN Zero ELSE OutOfRange
      [] method = "log10" ->
            IF v = One THEN Zero
            ELSE IF v = Int2Num(10) THEN One
            ELSE IF v = Int2Num(100) THEN Int2Num(2)
            ELSE OutOfRange
      [] OTHER -> OutOfRange

\* The outcomes of compute_expr: Ok(value), Err(ComputeError), a panic
\* (unimplemented!()), and "Range" for an evaluation that leaves the modelled
\* numbers.  Each carries the variable store as the evaluation left it.
Ok(v, vars) == [kind |-> "Ok", num |-> v, vars |-> vars]
Err(e, vars) == [kind |-> "Err", err |-> e, vars |-> vars]
Panic(vars) == [kind |-> "Panic", vars |-> vars]
Range(vars) == [kind |-> "Range", vars |-> vars]

\* Ok(v) unless v is outside the modelled numbers.
OkNum(v, vars) == IF v = OutOfRange THEN Range(vars) ELSE Ok(v, vars)

\* The Factorial loop stopping one factor early (`factor > 2`).
RECURSIVE FactorialLoop_StopsEarly(_, _)
FactorialLoop_StopsEarly(value, factor) ==
    IF value # OutOfRange /\ NumLt(Int2Num(2), factor)
    THEN FactorialLoop_StopsEarly(NumMul(value, factor), NumSub(factor, One))
    ELSE value

\* The while loop of the Factorial arm.
RECURSIVE FactorialLoop(_, _)
FactorialLoop(value, factor) ==
    IF value # OutOfRange /\ NumLt(One, factor)
    THEN FactorialLoop(NumMul(value, factor), NumSub(factor, One))
    ELSE value

FactorialArm(value, vars) ==
    IF NumLt(value, Zero) \/ ~is_integer(value) THEN Err(InvalidFactorial, vars)
    ELSE IF NumEq(value, Zero) \/ NumEq(value, One) THEN Ok(One, vars)
    ELSE OkNum(FactorialLoop(value, NumSub(value, One)), vars)

\* The Assignment arm without its constant check.
AssignmentArm_NoCheck(id, value, vars) == Ok(value, Insert(vars, id, <<value, FALSE>>))

\* The Assignment arm inserting only where the name is unbound.
AssignmentArm_InsertOnce(id, value, vars) ==
    IF id \in DOMAIN vars /\ vars[id][2] = TRUE
    THEN Err(VariableIsConstant(id), vars)
    ELSE IF id \in DOMAIN vars THEN Ok(value, vars)
    ELSE Ok(value, Insert(vars, id, <<value, FALSE>>))

\* The Assignment arm after its expression evaluated to value.
AssignmentArm(id, value, vars) ==
    IF id \in DOMAIN vars /\ vars[id][2] = TRUE
    THEN Err(VariableIsConstant(id), vars)
    ELSE Ok(value, Insert(vars, id, <<value, FALSE>>))

\* The Function arm after its argument evaluated to value.
FunctionArm(id, value, vars, funs) ==
    IF id \in DOMAIN funs THEN OkNum(ApplyFn(funs[id], value), vars)
    ELSE Err(UnrecognizedFunctionIdentifier(id), vars)

\* The Identifier arm.
IdentifierArm(id, vars) ==
    IF id \in DOMAIN vars THEN Ok(vars[id][1], vars)
    ELSE Err(UnrecognizedIdentifier(id), vars)

\* The inner match of the BinOp arm.
BinOpArm(op, lnum, rnum, vars) ==
    CASE op = "Plus" -> OkNum(NumAdd(lnum, rnum), vars)
      [] op = "Minus" -> OkNum(NumSub(lnum, rnum), vars)
      [] op = "Star" -> OkNum(NumMul(lnum, rnum), vars)
      [] op = "Slash" -> OkNum(NumDiv(lnum, rnum), vars)
      [] OTHER -> Panic(vars)

\* The boolean arms: every one ends in unimplemented!().
BoolArm(vars) == Panic(vars)

RECURSIVE compute_expr(_, _, _)
compute_expr(expr, vars, funs) ==
    CASE expr.tag \in {"BoolOp", "Bool", "BoolNot"} -> BoolArm(vars)
      [] expr.tag = "BinCmp" ->
            LET lval == compute_expr(expr.l, vars, funs) IN
            IF lval.kind # "Ok" THEN lval
            ELSE LET rval == compute_expr(expr.r, lval.vars, funs) IN
                 IF rval.kind # "Ok" THEN rval ELSE BoolArm(rval.vars)
      [] expr.tag = "Constant" -> Ok(expr.num, vars)
      [] expr.tag = "Identifier" -> IdentifierArm(expr.id, vars)
      [] expr.tag = "Neg" ->
            LET v == compute_expr(expr.e, vars, funs) IN
            IF v.kind # "Ok" THEN v ELSE OkNum(NumNeg(v.num), v.vars)
      [] expr.tag = "BinOp" ->
            LET lnum == compute_expr(expr.l, vars, funs) IN
            IF lnum.kind # "Ok" THEN lnum
            ELSE LET rnum == compute_expr(expr.r, lnum.vars, funs) IN
                 IF rnum.kind # "Ok" THEN rnum
                 ELSE BinOpArm(expr.op, lnum.num, rnum.num, rnum.vars)
      [] expr.tag = "Abs" ->
            LET v == compute_expr(expr.e, vars, funs) IN
            IF v.kind # "Ok" THEN v ELSE OkNum(abs(v.num), v.vars)
      [] expr.tag = "Function" ->
            LET value == compute_expr(expr.e, vars, funs) IN
            IF value.kind # "Ok" THEN value
            ELSE FunctionArm(expr.id, value.num, value.vars, funs)
      [] expr.tag = "Assignment" ->
            LET value == compute_expr(expr.e, vars, funs) IN
            IF value.kind # "Ok" THEN value
            ELSE AssignmentArm(expr.id, value.num, value.vars)
      [] expr.tag = "Pow" ->
            LET l == compute_expr(expr.l, vars, funs) IN
            IF l.kind # "Ok" THEN l
            ELSE LET r == compute_expr(expr.r, l.vars, funs) IN
                 IF r.kind # "Ok" THEN r ELSE OkNum(pow(l.num, r.num), r.vars)
      [] expr.tag = "Factorial" ->
            LET value == compute_expr(expr.e, vars, funs) IN
            IF value.kind # "Ok" THEN value ELSE FactorialArm(value.num, value.vars)

\* compute binding ans only where it is not bound yet.
BindAns_IfUnbound(val) ==
    IF val.kind = "Ok" /\ "ans" \notin DOMAIN val.vars
    THEN [val EXCEPT !.vars = Insert(val.vars, "ans", <<val.num, TRUE>>)]
    ELSE val

\* compute binding ans without the constant flag.
BindAns_NotConstant(val) ==
    IF val.kind = "Ok"
    THEN [val EXCEPT !.vars = Insert(val.vars, "ans", <<val.num, FALSE>>)]
    ELSE val

\* Computer::compute: the result of compute_expr, and on Ok(n) the store
\* with ans bound to (n, constant).
BindAns(val) ==
    IF val.kind = "Ok"
    THEN [val EXCEPT !.vars = Insert(val.vars, "ans", <<val.num, TRUE>>)]
    ELSE val

\* compute putting the store back as it was when compute_expr fails.
compute_RollsBack(expr, vars, funs) ==
    LET val == BindAns(compute_expr(expr, vars, funs)) IN
    IF val.kind = "Err" THEN [val EXCEPT !.vars = vars] ELSE val

compute(expr, vars, funs) == BindAns(compute_expr(expr, vars, funs))

----------------------------------------------------------------------------
(* Tokens: the lexer's vocabulary, as parser.rs matches on it *)

Number(n) == [type |-> "Number", num |-> n]
IdentifierToken(id) == [type |-> "Identifier", id |-> id]
Operator(op) == [type |-> "Operator", op |-> op]
Keyword(kwd) == [type |-> "Keyword", kwd |-> kwd]

\* Peekable::peek on the token iterator at position i (1-based index of the
\* next token): does a token remain, and is it the given one.
HasToken(toks, i) == i <= Len(toks)
PeekIsOperator(toks, i, op) ==
    HasToken(toks, i) /\ toks[i].type = "Operator" /\ toks[i].op = op
PeekIsKeyword(toks, i, kwd) ==
    HasToken(toks, i) /\ toks[i].type = "Keyword" /\ toks[i].kwd = kwd
PeekIsType(toks, i, type) == HasToken(toks, i) /\ toks[i].type = type

\* Iterator::next used only to move on: the position after it.
AfterNext(toks, i) == IF HasToken(toks, i) THEN i + 1 ELSE i

----------------------------------------------------------------------------
(* The parser: parser.rs *)

\* enum ParserError
ExpectedClosingParenthesis == [tag |-> "ExpectedClosingParenthesis"]
ExpectedClosingPipe == [tag |-> "ExpectedClosingPipe"]
ExpectedFactor(optTok) == [tag |-> "ExpectedFactor", found |-> optTok]
UnexpectedToken(expr, toks) == [tag |-> "UnexpectedToken", expr |-> expr, rest |-> toks]
UnexpectedNumber(tok) == [tag |-> "UnexpectedNumber", token |-> tok]

\* A ParserResult together with the position the token iterator is left at.
POk(expr, i) == [ok |-> TRUE, expr |-> expr, pos |-> i]
PErr(err, i) == [ok |-> FALSE, err |-> err, pos |-> i]

\* The ParserResult alone.
Result(r) == IF r.ok THEN [ok |-> TRUE, expr |-> r.expr] ELSE [ok |-> FALSE, err |-> r.err]

\* preprocess reporting the number of the pair instead of the identifier.
RECURSIVE preprocess_from_ReportsNumber(_, _)
preprocess_from_ReportsNumber(toks, i) ==
    IF ~HasToken(toks, i) THEN <<>>
    ELSE IF toks[i].type = "Number" /\ PeekIsType(toks, i + 1, "Identifier")
         THEN <<[tag |-> "UnexpectedNumber", token |-> toks[i]]>>
         ELSE preprocess_from_ReportsNumber(toks, i + 1)

\* preprocess: None is <<>>, Some(error) is <<error>>.
RECURSIVE preprocess_from(_, _)
preprocess_from(toks, i) ==
    IF ~HasToken(toks, i) THEN <<>>
    ELSE IF toks[i].type = "Number" /\ PeekIsType(toks, i + 1, "Identifier")
         THEN <<UnexpectedNumber(toks[i + 1])>>
         ELSE preprocess_from(toks, i + 1)

preprocess(toks) == preprocess_from(toks, 1)

ComparisonOperators ==
    {"Equals", "Greater", "GreaterEqual", "Lesser", "LesserEqual", "NotEquals"}

\* A call of one grammar function by another: rule names the function called,
\* expr is the tree handed to a loop (NoExpr for a function that takes none).
RECURSIVE Call(_, _, _, _)

NoExpr == [tag |-> "None"]

\* The `loop` of parse_bool_and, entered with the tree built so far.
bool_and_loop(toks, expr, i) ==
    IF PeekIsKeyword(toks, i, "And")
    THEN LET r == Call("parse_bool_or", toks, NoExpr, i + 1) IN
         IF ~r.ok THEN r ELSE Call("bool_and_loop", toks, BoolOp("And", expr, r.expr), r.pos)
    ELSE POk(expr, i)

parse_bool_and(toks, i) ==
    LET first == Call("parse_bool_or", toks, NoExpr, i) IN
    IF ~first.ok THEN first ELSE Call("bool_and_loop", toks, first.expr, first.pos)

bool_or_loop(toks, expr, i) ==
    IF PeekIsKeyword(toks, i, "Or")
    THEN LET r == Call("parse_bool", toks, NoExpr, i + 1) IN
         IF ~r.ok THEN r ELSE Call("bool_or_loop", toks, BoolOp("Or", expr, r.expr), r.pos)
    ELSE POk(expr, i)

parse_bool_or(toks, i) ==
    LET first == Call("parse_bool", toks, NoExpr, i) IN
    IF ~first.ok THEN first ELSE Call("bool_or_loop", toks, first.expr, first.pos)

parse_bool(toks, i) ==
    IF PeekIsKeyword(toks, i, "True") THEN POk(Bool(TRUE), i + 1)
    ELSE IF PeekIsKeyword(toks, i, "False") THEN POk(Bool(FALSE), i + 1)
    ELSE IF PeekIsOperator(toks, i, "Exclamation")
    THEN LET r == Call("parse_bool", toks, NoExpr, i + 1) IN
         IF ~r.ok THEN r ELSE POk(BoolNot(r.expr), r.pos)
    ELSE Call("parse_comparison", toks, NoExpr, i)

comparison_loop(toks, expr, i) ==
    IF PeekIsType(toks, i, "Operator") /\ toks[i].op \in ComparisonOperators
    THEN LET r == Call("parse_additive_expr", toks, NoExpr, i + 1) IN
         IF ~r.ok THEN r
         ELSE Call("comparison_loop", toks, BinCmp(toks[i].op, expr, r.expr), r.pos)
    ELSE POk(expr, i)

parse_comparison(toks, i) ==
    LET first == Call("parse_additive_expr", toks, NoExpr, i) IN
    IF ~first.ok THEN first ELSE Call("comparison_loop", toks, first.expr, first.pos)

additive_loop(toks, expr, i) ==
    IF PeekIsType(toks, i, "Operator") /\ toks[i].op \in {"Plus", "Minus"}
    THEN LET r == Call("parse_multiplicative_expr", toks, NoExpr, i + 1) IN
         IF ~r.ok THEN r
         ELSE Call("additive_loop", toks, BinOp(toks[i].op, expr, r.expr), r.pos)
    ELSE POk(expr, i)

parse_additive_expr(toks, i) ==
    LET first == Call("parse_multiplicative_expr", toks, NoExpr, i) IN
    IF ~first.ok THEN first ELSE Call("additive_loop", toks, first.expr, first.pos)

multiplicative_loop(toks, expr, i) ==
    IF PeekIsType(toks, i, "Operator") /\ toks[i].op \in {"Star", "Slash"}
    THEN LET r == Call("parse_parenthetical_multiplicative_expr", toks, NoExpr, i + 1) IN
         IF ~r.ok THEN r
         ELSE Call("multiplicative_loop", toks, BinOp(toks[i].op, expr, r.expr), r.pos)
    ELSE POk(expr, i)

parse_multiplicative_expr(toks, i) ==
    LET first == Call("parse_parenthetical_multiplicative_expr", toks, NoExpr, i) IN
    IF ~first.ok THEN first ELSE Call("multiplicative_loop", toks, first.expr, first.pos)

\* The inner loop of parse_parenthetical_multiplicative_expr: `^ exponent`
\* after the closing parenthesis.
parenthetical_power_loop(toks, internal_expr, i) ==
    IF PeekIsOperator(toks, i, "Caret")
    THEN LET exponent == Call("parse_factorial_expr", toks, NoExpr, i + 1) IN
         IF ~exponent.ok THEN exponent
         ELSE Call("parenthetical_power_loop", toks, Pow(internal_expr, exponent.expr), exponent.pos)
    ELSE POk(internal_expr, i)

parenthetical_loop(toks, expr, i) ==
    IF PeekIsOperator(toks, i, "LParen")
    THEN LET internal == Call("parse_additive_expr", toks, NoExpr, i + 1) IN
         IF ~internal.ok THEN internal
         ELSE IF PeekIsOperator(toks, internal.pos, "RParen")
         THEN LET powered == Call("parenthetical_power_loop", toks, internal.expr, internal.pos + 1) IN
              IF ~powered.ok THEN powered
              ELSE Call("parenthetical_loop", toks, BinOp("Star", expr, powered.expr), powered.pos)
         ELSE PErr(ExpectedClosingParenthesis, AfterNext(toks, internal.pos))
    ELSE POk(expr, i)

parse_parenthetical_multiplicative_expr(toks, i) ==
    LET first == Call("parse_power_expr", toks, NoExpr, i) IN
    IF ~first.ok THEN first ELSE Call("parenthetical_loop", toks, first.expr, first.pos)

power_loop(toks, expr, i) ==
    IF PeekIsOperator(toks, i, "Caret")
    THEN LET exponent == Call("parse_factorial_expr", toks, NoExpr, i + 1) IN
         IF ~exponent.ok THEN exponent
         ELSE Call("power_loop", toks, Pow(expr, exponent.expr), exponent.pos)
    ELSE POk(expr, i)

parse_power_expr(toks, i) ==
    LET first == Call("parse_factorial_expr", toks, NoExpr, i) IN
    IF ~first.ok THEN first ELSE Call("power_loop", toks, first.expr, first.pos)

parse_factorial_expr(toks, i) ==
    LET expr == Call("parse_factor", toks, NoExpr, i) IN
    IF ~expr.ok THEN expr
    ELSE IF PeekIsOperator(toks, expr.pos, "Exclamation")
    THEN POk(Factorial(expr.expr), expr.pos + 1)
    ELSE expr

\* `|` expr `|` once the opening pipe is consumed (both Pipe arms of parse_factor).
PipeArm(toks, i) ==
    LET expr == Call("parse_additive_expr", toks, NoExpr, i) IN
    IF ~expr.ok THEN expr
    ELSE IF PeekIsOperator(toks, expr.pos, "Pipe") THEN POk(Abs(expr.expr), expr.pos + 1)
    ELSE PErr(ExpectedClosingPipe, AfterNext(toks, expr.pos))

\* The Identifier arm of parse_factor: toks[i] is the identifier, consumed.
IdentifierFactor(toks, i) ==
    LET id == toks[i].id IN
    IF PeekIsOperator(toks, i + 1, "LParen")
    THEN LET expr == Call("parse_additive_expr", toks, NoExpr, i + 2) IN
         IF ~expr.ok THEN expr
         ELSE IF PeekIsOperator(toks, expr.pos, "RParen")
         THEN POk(Function(id, expr.expr), expr.pos + 1)
         ELSE PErr(ExpectedClosingParenthesis, AfterNext(toks, expr.pos))
    ELSE IF PeekIsOperator(toks, i + 1, "Pipe") THEN PipeArm(toks, i + 2)
    ELSE IF PeekIsType(toks, i + 1, "Number")
    THEN POk(Function(id, Constant(toks[i + 1].num)), i + 2)
    ELSE IF PeekIsType(toks, i + 1, "Identifier")
    THEN LET arg == Call("parse_factor", toks, NoExpr, i + 1) IN
         IF ~arg.ok THEN arg ELSE POk(Function(id, arg.expr), arg.pos)
    ELSE IF PeekIsOperator(toks, i + 1, "Equals")
    THEN LET expr == Call("parse_additive_expr", toks, NoExpr, i + 2) IN
         IF ~expr.ok THEN expr ELSE POk(Assignment(id, expr.expr), expr.pos)
    ELSE POk(Identifier(id), i + 1)

\* The LParen arm of parse_factor: the inner result is kept as it is, error
\* included, when the token after it is `)`.
ParenFactor(toks, i) ==
    LET expr == Call("parse_additive_expr", toks, NoExpr, i) IN
    IF PeekIsOperator(toks, expr.pos, "RParen") THEN [expr EXCEPT !.pos = expr.pos + 1]
    ELSE PErr(ExpectedClosingParenthesis, AfterNext(toks, expr.pos))

parse_factor(toks, i) ==
    IF ~HasToken(toks, i) THEN PErr(ExpectedFactor(<<>>), i)
    ELSE IF PeekIsOperator(toks, i, "LParen") THEN ParenFactor(toks, i + 1)
    ELSE IF PeekIsOperator(toks, i, "Pipe") THEN PipeArm(toks, i + 1)
    ELSE IF PeekIsType(toks, i, "Identifier") THEN IdentifierFactor(toks, i)
    ELSE IF PeekIsOperator(toks, i, "Minus")
    THEN LET r == Call("parse_factor", toks, NoExpr, i + 1) IN
         IF ~r.ok THEN r ELSE POk(Neg(r.expr), r.pos)
    ELSE IF PeekIsType(toks, i, "Number") THEN POk(Constant(toks[i].num), i + 1)
    ELSE PErr(ExpectedFactor(<<toks[i]>>), i + 1)

Call(rule, toks, expr, i) ==
    CASE rule = "parse_bool_and" -> parse_bool_and(toks, i)
      [] rule = "bool_and_loop" -> bool_and_loop(toks, expr, i)
      [] rule = "parse_bool_or" -> parse_bool_or(toks, i)
      [] rule = "bool_or_loop" -> bool_or_loop(toks, expr, i)
      [] rule = "parse_bool" -> parse_bool(toks, i)
      [] rule = "parse_comparison" -> parse_comparison(toks, i)
      [] rule = "comparison_loop" -> comparison_loop(toks, expr, i)
      [] rule = "parse_additive_expr" -> parse_additive_expr(toks, i)
      [] rule = "additive_loop" -> additive_loop(toks, expr, i)
      [] rule = "parse_multiplicative_expr" -> parse_multiplicative_expr(toks, i)
      [] rule = "multiplicative_loop" -> multiplicative_loop(toks, expr, i)
      [] rule = "parse_parenthetical_multiplicative_expr" ->
            parse_parenthetical_multiplicative_expr(toks, i)
      [] rule = "parenthetical_loop" -> parenthetical_loop(toks, expr, i)
      [] rule = "parenthetical_power_loop" -> parenthetical_power_loop(toks, expr, i)
      [] rule = "parse_power_expr" -> parse_power_expr(toks, i)
      [] rule = "power_loop" -> power_loop(toks, expr, i)
      [] rule = "parse_factorial_expr" -> parse_factorial_expr(toks, i)
      [] rule = "parse_factor" -> parse_factor(toks, i)

\* The collecting loop of parse putting each token in front of the ones before.
RECURSIVE all_tokens_Reversed(_, _, _)
all_tokens_Reversed(toks, i, acc) ==
    IF HasToken(toks, i) THEN all_tokens_Reversed(toks, i + 1, <<toks[i]>> \o acc) ELSE acc

\* The loop of parse that collects every offending token, from position i.
RECURSIVE all_tokens(_, _, _)
all_tokens(toks, i, acc) ==
    IF HasToken(toks, i) THEN all_tokens(toks, i + 1, Append(acc, toks[i])) ELSE acc

\* parse once preprocess returned None.
ParseAfterPreprocess(toks) ==
    LET expr == parse_bool_and(toks, 1) IN
    IF expr.ok
    THEN IF HasToken(toks, expr.pos)
         THEN [ok |-> FALSE,
               err |-> UnexpectedToken(expr.expr,
                                       all_tokens(toks, expr.pos + 1, <<toks[expr.pos]>>))]
         ELSE Result(expr)
    ELSE Result(expr)

parse(toks) ==
    LET pre == preprocess(toks) IN
    IF pre # <<>> THEN [ok |-> FALSE, err |-> pre[1]] ELSE ParseAfterPreprocess(toks)

parse_no_preprocess(toks) == Result(parse_bool_and(toks, 1))

----------------------------------------------------------------------------
(* The state machine *)

VARIABLES
    variables,   \* Computer.variables: name -> <<value, is_constant>>
    functions,   \* Computer.functions: name -> the method its closure calls
    calls,       \* the number of compute/eval calls made on the Computer
    okBefore,    \* some call before the last one returned Ok
    pre,         \* Computer.variables as the last call found it
    ast,         \* <<tree>> the last call computed, <<>> if it computed none
    result,      \* what the last call returned
    tokens,      \* the token sequence given to eval / parse
    parsed,      \* <<parse(tokens)>> once parse has returned, else <<>>
    parsedNP,    \* <<parse_no_preprocess(tokens)>> once it has returned, else <<>>
    tree,        \* the tree a caller holds and calls replace on
    before,      \* that tree as the caller built it
    target,      \* the `old` argument of replace
    substitute,  \* the `new` argument of replace
    replaced     \* <<the call's flag and returned count>> once replace has returned

replaceVars == <<tree, before, target, substitute, replaced>>

vars == <<variables, functions, calls, okBefore, pre, ast, result, tokens, parsed, parsedNP,
          replaceVars>>

\* What a call returns to its caller.
Returned(val) ==
    CASE val.kind = "Ok" -> [kind |-> "Ok", num |-> val.num]
      [] val.kind = "Err" -> [kind |-> "Err", err |-> val.err]
      [] OTHER -> [kind |-> val.kind]

NoResult == [kind |-> "None"]

(* Inputs of compute: trees over a few numbers and names. *)
N(i) == Constant(Int2Num(i))
Numbers == {Zero, One, Int2Num(2), Int2Num(5), Half5}
Names == {"pi", "ans", "a", "x"}
Atoms == {Constant(n) : n \in Numbers} \cup {Identifier(id) : id \in Names}
Unary(S) == {Neg(x) : x \in S} \cup {Abs(x) : x \in S} \cup {Factorial(x) : x \in S}
Assignments(S) == {Assignment(id, x) : id \in {"pi", "ans", "a"}, x \in S}
Calls(S) == {Function(f, x) : f \in {"sqrt", "log", "log10", "foo"}, x \in S}
Left == {Identifier("a"), Assignment("a", N(2)), Assignment("ans", N(1))}
Right == {N(5), Identifier("x"), Assignment("pi", N(1))}
Binary ==
    {BinOp(op, l, r) : op \in {"Plus", "Star"}, l \in Left, r \in Right}
    \cup {BinOp("Minus", Identifier("a"), N(5)), BinOp("Slash", Identifier("a"), N(2)),
          BinOp("Slash", N(1), N(0)), BinOp("Caret", N(2), N(5)),
          Pow(Identifier("a"), N(2)), Pow(Assignment("a", N(2)), Identifier("x"))}
Booleans ==
    {Bool(TRUE), BoolNot(Bool(FALSE)), BoolOp("And", Bool(TRUE), Bool(FALSE)),
     BoolOp("Or", Identifier("x"), Bool(FALSE)), Neg(Bool(TRUE)),
     Assignment("a", BinCmp("Equals", N(1), N(1)))}
    \cup {BinCmp("Lesser", l, r) : l \in {Assignment("a", N(1)), Identifier("x")},
                                   r \in {N(2), Identifier("x")}}
Nested ==
    Unary({Assignment("a", N(5)), Neg(N(1))})
    \cup Calls({N(1), Assignment("a", N(1))})
    \cup Assignments({Assignment("a", N(1)), Factorial(N(5)),
                      BinOp("Plus", Identifier("a"), N(1))})
    \cup {Assignment("e", N(1)), Function("sqrt", N(2)), Neg(Assignment("pi", N(1))),
          Function("cos", N(0)), Function("foo", Identifier("x"))}

ComputeInputs ==
    Atoms \cup {Factorial(x) : x \in Atoms}
    \cup Assignments({N(1), N(2), Identifier("a"), Identifier("ans"), Identifier("x")})
    \cup Binary \cup Booleans \cup Nested

(* Inputs of eval: the token sequences of the expressions the documentation
   names. *)
Num(i) == Number(Int2Num(i))
Id(s) == IdentifierToken(s)
Op(s) == Operator(s)
EvalInputs ==
    { <<Id("a"), Op("Equals"), Num(2)>>,                    \* a = 2
      <<Id("a"), Op("Star"), Num(3)>>,                      \* a * 3
      <<Id("a"), Op("Equals"), Num(5)>>,                    \* a = 5
      <<Id("a")>>,                                          \* a
      <<Id("pi")>>,                                         \* pi
      <<Id("pi"), Op("Equals"), Num(1)>>,                   \* pi = 1
      <<Id("ans")>>,                                        \* ans
      <<Id("ans"), Op("Equals"), Num(1)>>,                  \* ans = 1
      <<Num(2), Id("x")>>,                                  \* 2x
      <<Num(5), Op("Exclamation")>>,                        \* 5!
      <<Num(0), Op("Exclamation")>>,                        \* 0!
      <<Num(1), Op("Exclamation")>>,                        \* 1!
      <<Op("Minus"), Num(1), Op("Exclamation")>>,           \* -1!
      <<Number(Half5), Op("Exclamation")>>,                 \* 2.5!
      <<Op("LParen"), Num(2), Op("Plus"), Num(3), Op("RParen"), Op("Caret"), Num(2)>>,
      <<Num(2), Op("LParen"), Num(3), Op("RParen")>>,       \* 2(3)
      <<Id("sqrt"), Op("LParen"), Num(9), Op("RParen")>>,   \* sqrt(9)
      <<Id("foo"), Op("LParen"), Num(1), Op("RParen")>>,    \* foo(1)
      <<Id("log10"), Op("LParen"), Num(1), Op("RParen")>>,  \* log10(1)
      <<Id("log"), Num(100)>>,                              \* log 100
      <<Keyword("True")>>,                                  \* true
      <<Op("Exclamation"), Keyword("True")>>,               \* !true
      <<Num(1), Op("Lesser"), Num(2)>>,                     \* 1 < 2
      <<Keyword("True"), Keyword("And"), Keyword("False")>> \* true and false
    }

(* Inputs of parse: every sequence of at most MaxLen tokens of Alphabet, and
   the longer sequences of Seeds. *)
Alphabet ==
    {Num(1), Num(2), Id("x"), Id("f"), Op("Plus"), Op("Caret"), Op("Exclamation"),
     Op("Pipe"), Op("LParen"), Op("RParen"), Op("Equals"), Keyword("And"), Keyword("True")}
Seeds ==
    { <<>>,
      <<Id("x"), Op("Caret"), Num(2), Op("Star"), Num(4)>>,             \* x^2 * 4
      <<Op("Pipe"), Num(2), Op("Plus"), Id("x"), Op("Pipe")>>,          \* |2 + x|
      <<Op("Pipe"), Num(2), Op("Plus"), Num(1), Op("Pipe")>>,           \* |2 + 1|
      <<Op("Pipe"), Op("Minus"), Num(2)>>,                              \* |-2
      <<Op("LParen"), Num(1), Op("Plus"), Op("RParen")>>,               \* (1 + )
      <<Num(2), Op("LParen"), Num(3), Op("RParen"), Op("Caret"), Num(2)>>,
      <<Id("f"), Op("LParen"), Num(1), Op("RParen"), Num(2), Id("x")>>, \* f(1) 2 x
      <<Num(2), Id("f"), Num(1), Id("x")>>,                             \* 2 f 1 x
      <<Num(1), Op("Slash"), Num(2), Op("RParen"), Op("LParen"), Id("x"), Num(2)>>,
      <<Num(1), Op("Lesser"), Num(2), Keyword("Or"), Keyword("False")>> \* 1 < 2 or false
    }

\* No caller holds a tree to call replace on.
NoReplace ==
    /\ tree = NoExpr /\ before = NoExpr
    /\ target = NoExpr /\ substitute = NoExpr
    /\ replaced = <<>>

Init ==
    /\ \/ variables = DefaultVariables /\ functions = DefaultFunctions  \* Computer::default()
       \/ variables = EmptyMap /\ functions = EmptyMap                  \* Computer::new()
    /\ calls = 0
    /\ okBefore = FALSE
    /\ pre = variables
    /\ ast = <<>>
    /\ result = NoResult
    /\ tokens = <<>>
    /\ parsed = <<>>
    /\ parsedNP = <<>>
    /\ NoReplace

\* A caller may go on using the Computer: the bound on calls is not reached
\* and the last call did not panic.
Usable == calls < MaxCalls /\ result.kind # "Panic"

Succeeded == result.kind = "Ok"

\* Computer::compute(expr)
Compute(expr) ==
    LET val == compute(expr, variables, functions) IN
    /\ Usable
    /\ val.kind # "Range"
    /\ variables' = val.vars
    /\ result' = Returned(val)
    /\ pre' = variables
    /\ ast' = <<expr>>
    /\ tokens' = <<>>
    /\ calls' = calls + 1
    /\ okBefore' = (okBefore \/ Succeeded)
    /\ UNCHANGED <<functions, parsed, parsedNP, replaceVars>>

\* Computer::eval, from the token sequence tokenize returned.
Eval(toks) ==
    LET p == parse(toks)
        val == compute(p.expr, variables, functions)
    IN  /\ Usable
        /\ IF p.ok
           THEN /\ val.kind # "Range"
                /\ variables' = val.vars
                /\ result' = Returned(val)
                /\ ast' = <<p.expr>>
           ELSE /\ variables' = variables
                /\ result' = [kind |-> "ParserError", perr |-> p.err]
                /\ ast' = <<>>
        /\ pre' = variables
        /\ tokens' = toks
        /\ calls' = calls + 1
        /\ okBefore' = (okBefore \/ Succeeded)
        /\ UNCHANGED <<functions, parsed, parsedNP, replaceVars>>

ComputeStep == \E expr \in ComputeInputs : Compute(expr)
EvalStep == \E toks \in EvalInputs : Eval(toks)

Next == ComputeStep \/ EvalStep

Spec == Init /\ [][Next]_vars

(* The parser on its own: a caller builds a token sequence and hands it to
   parse and to parse_no_preprocess. *)
ParseInit ==
    /\ variables = EmptyMap
    /\ functions = EmptyMap
    /\ calls = 0
    /\ okBefore = FALSE
    /\ pre = EmptyMap
    /\ ast = <<>>
    /\ result = NoResult
    /\ tokens \in Seeds
    /\ parsed = <<>>
    /\ parsedNP = <<>>
    /\ NoReplace

PushToken(t) ==
    /\ Len(tokens) < MaxLen
    /\ parsed = <<>> /\ parsedNP = <<>>
    /\ tokens' = Append(tokens, t)
    /\ UNCHANGED <<variables, functions, calls, okBefore, pre, ast, result, parsed, parsedNP,
                   replaceVars>>

Parse ==
    /\ parsed = <<>>
    /\ parsed' = <<parse(tokens)>>
    /\ UNCHANGED <<variables, functions, calls, okBefore, pre, ast, result, tokens, parsedNP,
                   replaceVars>>

ParseNoPreprocess ==
    /\ parsedNP = <<>>
    /\ parsedNP' = <<parse_no_preprocess(tokens)>>
    /\ UNCHANGED <<variables, functions, calls, okBefore, pre, ast, result, tokens, parsed,
                   replaceVars>>

PushStep == \E t \in Alphabet : PushToken(t)

ParseNext == PushStep \/ Parse \/ ParseNoPreprocess

ParseSpec == ParseInit /\ [][ParseNext]_vars

(* Expr::replace on its own: a caller holds a tree, calls replace on it once
   and computes the tree it then holds on a new Computer. *)
XSquaredTimes4 == <<Id("x"), Op("Caret"), Num(2), Op("Star"), Num(4)>>  \* x^2 * 4
X == Identifier("x")
ReplaceTrees ==
    {parse(XSquaredTimes4).expr, X, N(2), Identifier("z")}
    \cup {BinOp("Plus", X, X), Pow(X, N(2)), Neg(X), Function("sqrt", X)}
    \cup {Abs(X), Factorial(X), Assignment("a", X), BoolNot(X),
          BinCmp("Lesser", X, N(2)), BoolOp("And", X, X)}
    \cup {Neg(Neg(X)), BinOp("Star", Neg(X), Abs(Neg(X))), Neg(Factorial(X)),
          Pow(Assignment("a", N(2)), X), Function("sqrt", BinOp("Minus", N(2), X))}
Olds == {X, Neg(X), N(2)}
News == {N(20), Identifier("y"), Neg(X)}

ReplaceInit ==
    /\ variables = EmptyMap   \* Computer::new()
    /\ functions = EmptyMap
    /\ calls = 0
    /\ okBefore = FALSE
    /\ pre = EmptyMap
    /\ ast = <<>>
    /\ result = NoResult
    /\ tokens = <<>>
    /\ parsed = <<>>
    /\ parsedNP = <<>>
    /\ tree \in ReplaceTrees
    /\ before = tree
    /\ target \in Olds
    /\ substitute \in News
    /\ replaced = <<>>

\* tree.replace(&target, &substitute, ignore_fields)
Replace(ignore_fields) ==
    LET r == replace(tree, target, substitute, ignore_fields) IN
    /\ replaced = <<>>
    /\ tree' = r.tree
    /\ replaced' = <<[ignore_fields |-> ignore_fields, count |-> r.replaced]>>
    /\ UNCHANGED <<variables, functions, calls, okBefore, pre, ast, result, tokens, parsed,
                   parsedNP, before, target, substitute>>

ReplaceStep == \E ignore_fields \in BOOLEAN : Replace(ignore_fields)

\* Computer::compute(&tree) once replace has returned
ComputeReplaced == replaced # <<>> /\ Compute(tree)

ReplaceNext == ReplaceStep \/ ComputeReplaced

ReplaceSpec == ReplaceInit /\ [][ReplaceNext]_vars

----------------------------------------------------------------------------
(* Properties *)

IsBound(store, id) == id \in DOMAIN store
IsConstant(store, id) == IsBound(store, id) /\ store[id][2]

\* The last call computed a tree.
Computed == ast # <<>>

\* The Computer was built by Computer::default().
IsDefault == functions # EmptyMap

OkResult(v) == [kind |-> "Ok", num |-> v]
ErrResult(e) == [kind |-> "Err", err |-> e]

\* The children of a tree node.
Children(t) ==
    CASE t.tag \in {"BoolOp", "BinCmp", "BinOp", "Pow"} -> {t.l, t.r}
      [] t.tag \in {"BoolNot", "Neg", "Abs", "Factorial", "Function", "Assignment"} -> {t.e}
      [] OTHER -> {}

\* The tree t has a node Assignment(id, _).
RECURSIVE AssignsTo(_, _)
AssignsTo(t, id) ==
    \/ t.tag = "Assignment" /\ t.id = id
    \/ \E c \in Children(t) : AssignsTo(c, id)

\* The tree t has a Bool, BoolNot, BoolOp or BinCmp node.
RECURSIVE HasBoolean(_)
HasBoolean(t) ==
    \/ t.tag \in {"Bool", "BoolNot", "BoolOp", "BinCmp"}
    \/ \E c \in Children(t) : HasBoolean(c)

\* Every name a store binds or a tree of the inputs assigns.
AllNames == {"pi", "e", "ans", "a", "x", "y"}

(* C1: computing Assignment(name, e), e evaluating to a value, while name is
   bound constant fails with VariableIsConstant(name); across every call a
   constant binding other than ans keeps its value and its flag, so pi and e
   of the default Computer stay as seeded. *)
C1_ConstantsKept ==
    /\ \A id \in (DOMAIN pre) \ {"ans"} :
           pre[id][2] => IsBound(variables, id) /\ variables[id] = pre[id]
    /\ IsDefault => variables["pi"] = <<PI, TRUE>> /\ variables["e"] = <<E, TRUE>>
    /\ Computed /\ ast[1].tag = "Assignment" /\ IsConstant(pre, ast[1].id)
       /\ compute_expr(ast[1].e, pre, functions).kind = "Ok"
       => result = ErrResult(VariableIsConstant(ast[1].id))

C1_Witness ==
    /\ ast = <<Assignment("pi", N(1))>>
    /\ result = ErrResult(VariableIsConstant("pi"))
    /\ variables["pi"] = <<PI, TRUE>>
    /\ calls = 2

(* C2: after a call that returns Ok(v), whatever ans was bound to before, the
   store binds ans to (v, constant), and computing Identifier("ans") next
   returns v. *)
C2_AnsIsLastResult ==
    result.kind = "Ok" =>
        /\ IsBound(variables, "ans")
        /\ variables["ans"] = <<result.num, TRUE>>
        /\ Returned(compute(Identifier("ans"), variables, functions)) = OkResult(result.num)

C2_Witness ==
    /\ result.kind = "Ok"
    /\ IsBound(pre, "ans")
    /\ pre["ans"][1] # result.num
    /\ variables["ans"] = <<result.num, TRUE>>

(* C3 as stated: computing a tree Assignment("ans", e), e evaluating to a
   value, fails with VariableIsConstant("ans") in every state of a Computer. *)
C3_AnsAssignmentAlwaysFails ==
    Computed /\ ast[1].tag = "Assignment" /\ ast[1].id = "ans"
    /\ compute_expr(ast[1].e, pre, functions).kind = "Ok"
    => result = ErrResult(VariableIsConstant("ans"))

(* C3 amended: once a call on the Computer has returned Ok, computing
   Assignment("ans", e), e evaluating to a value, fails with
   VariableIsConstant("ans"), and no tree that contains an assignment to ans
   computes to Ok; before the first Ok, ans is unbound or not constant and
   Assignment("ans", e) returns the value of e. *)
C3_AnsAssignmentFailsAfterOk ==
    Computed =>
        LET t == ast[1]
            rhs == compute_expr(t.e, pre, functions)
        IN  /\ okBefore /\ AssignsTo(t, "ans") => result.kind # "Ok"
            /\ t.tag = "Assignment" /\ t.id = "ans" /\ rhs.kind = "Ok"
               => IF okBefore THEN result = ErrResult(VariableIsConstant("ans"))
                              ELSE result = OkResult(rhs.num)

C3_Witness ==
    /\ okBefore
    /\ ast = <<Assignment("ans", N(1))>>
    /\ result = ErrResult(VariableIsConstant("ans"))

(* C4 as stated: computing a tree that contains a Bool, BoolNot, BoolOp or
   BinCmp node returns an error value, and no call panics: every call ends in
   Ok(value) or Err(error). *)
C4_BooleansReturnAnError ==
    /\ result.kind # "Panic"
    /\ Computed /\ HasBoolean(ast[1]) => result.kind = "Err"

(* C5 as stated: on the default Computer, computing Function("log10", e), e
   evaluating to a value, does not fail with UnrecognizedFunctionIdentifier. *)
C5_Log10IsRegistered ==
    IsDefault /\ Computed /\ ast[1].tag = "Function" /\ ast[1].id = "log10"
    /\ compute_expr(ast[1].e, pre, functions).kind = "Ok"
    => result # ErrResult(UnrecognizedFunctionIdentifier("log10"))

(* C5 amended: the default Computer starts with exactly the variables pi and
   e, both constant, and with functions registered under exactly the names
   sqrt, sin, cos, tan and log; computing Function("log", e) on it does not
   fail with UnrecognizedFunctionIdentifier, computing Function("log10", e)
   does. *)
C5_DefaultComputer ==
    IsDefault =>
        /\ calls = 0 => variables = DefaultVariables
        /\ DOMAIN DefaultVariables = {"pi", "e"}
        /\ DOMAIN functions = {"sqrt", "sin", "cos", "tan", "log"}
        /\ Computed /\ ast[1].tag = "Function"
           /\ compute_expr(ast[1].e, pre, functions).kind = "Ok"
           => /\ ast[1].id = "log" => result.kind = "Ok"
              /\ ast[1].id = "log10"
                 => result = ErrResult(UnrecognizedFunctionIdentifier("log10"))

C5_Witness ==
    /\ IsDefault
    /\ ast = <<Function("log", N(1))>>
    /\ result = OkResult(Zero)

(* C6: computing Assignment(name, e) for a name other than ans that is unbound
   or bound non-constant, e evaluating to v, returns v and binds name to
   (v, non-constant), so that Identifier(name) then computes to v; a call
   whose tree has no assignment to name leaves the binding of name alone
   (a = 2 then a * 3 gives 6). *)
C6_AssignmentBinds ==
    /\ Computed =>
        LET t == ast[1]
            rhs == compute_expr(t.e, pre, functions)
        IN  t.tag = "Assignment" /\ t.id # "ans" /\ ~IsConstant(pre, t.id) /\ rhs.kind = "Ok"
            => /\ result = OkResult(rhs.num)
               /\ IsBound(variables, t.id)
               /\ variables[t.id] = <<rhs.num, FALSE>>
               /\ Returned(compute_expr(Identifier(t.id), variables, functions))
                      = OkResult(rhs.num)
    /\ \A id \in AllNames \ {"ans"} :
           ~(Computed /\ AssignsTo(ast[1], id))
           => /\ IsBound(variables, id) <=> IsBound(pre, id)
              /\ IsBound(pre, id) => variables[id] = pre[id]
    /\ tokens = <<Id("a"), Op("Star"), Num(3)>> /\ IsBound(pre, "a") /\ pre["a"][1] = Int2Num(2)
       => result = OkResult(Int2Num(6))

C6_Witness ==
    /\ IsBound(pre, "a")
    /\ pre["a"] = <<Int2Num(2), FALSE>>
    /\ ast = <<Assignment("a", N(5))>>
    /\ variables["a"] = <<Int2Num(5), FALSE>>
    /\ result = OkResult(Int2Num(5))

\* n! for a natural number n.
RECURSIVE Product(_)
Product(n) == IF n <= 1 THEN 1 ELSE n * Product(n - 1)

MinusOneFactorial == <<Op("Minus"), Num(1), Op("Exclamation")>>

(* C7: computing Factorial(e), e evaluating to v, fails with InvalidFactorial
   when v is negative or not an integer, returns 1 when v is 0 or 1, and
   otherwise returns v * (v-1) * ... * 2; the tokens of `-1!` parse to
   Factorial(Neg(Constant(1))), which fails with InvalidFactorial. *)
C7_Factorial ==
    /\ Computed /\ ast[1].tag = "Factorial"
       /\ compute_expr(ast[1].e, pre, functions).kind = "Ok"
       => LET v == compute_expr(ast[1].e, pre, functions).num IN
          IF v[2] # 1 \/ v[1] < 0 THEN result = ErrResult(InvalidFactorial)
          ELSE result = OkResult(Int2Num(Product(v[1])))
    /\ tokens = MinusOneFactorial
       => /\ ast = <<Factorial(Neg(N(1)))>>
          /\ result = ErrResult(InvalidFactorial)

C7_Witness ==
    /\ tokens = <<Num(5), Op("Exclamation")>>
    /\ ast = <<Factorial(N(5))>>
    /\ result = OkResult(Int2Num(120))

\* A Number at position k immediately followed by an Identifier.
NumberThenIdentifier(toks, k) ==
    /\ k \in 1..(Len(toks) - 1)
    /\ toks[k].type = "Number"
    /\ toks[k + 1].type = "Identifier"

(* C8: for a token sequence in which some Number is immediately followed by
   an Identifier, parse fails with UnexpectedNumber carrying the Identifier
   token of the first such pair. *)
C8_NumberThenIdentifier ==
    parsed # <<>> =>
        \A k \in 1..Len(tokens) :
            NumberThenIdentifier(tokens, k)
            /\ (\A j \in 1..(k - 1) : ~NumberThenIdentifier(tokens, j))
            => parsed[1] = [ok |-> FALSE, err |-> UnexpectedNumber(tokens[k + 1])]

C8_Witness ==
    /\ tokens = <<Num(2), Id("f"), Num(1), Id("x")>>
    /\ parsed = <<[ok |-> FALSE, err |-> UnexpectedNumber(Id("f"))]>>

(* C9: parse never returns Ok while tokens are left unconsumed: when the
   top-level rule succeeds with tree e and tokens remain, parse fails with
   UnexpectedToken(e, r), r the unconsumed suffix of the input in its order. *)
C9_NoTrailingTokens ==
    parsed # <<>> =>
        LET top == parse_bool_and(tokens, 1) IN
        /\ parsed[1].ok => top.ok /\ top.pos = Len(tokens) + 1 /\ parsed[1].expr = top.expr
        /\ preprocess(tokens) = <<>> /\ top.ok /\ top.pos <= Len(tokens)
           => parsed[1] = [ok |-> FALSE,
                           err |-> UnexpectedToken(top.expr,
                                                   SubSeq(tokens, top.pos, Len(tokens)))]

C9_Witness ==
    /\ parsed # <<>>
    /\ ~parsed[1].ok
    /\ parsed[1].err.tag = "UnexpectedToken"
    /\ Len(parsed[1].err.rest) >= 2
    /\ parsed[1].err.rest[1] # parsed[1].err.rest[2]

(* C10 as stated: for every token sequence preprocess accepts,
   parse_no_preprocess and parse return the same result. *)
C10_SameAsParse ==
    parsed # <<>> /\ parsedNP # <<>> /\ preprocess(tokens) = <<>> => parsedNP = parsed

\* The tokens strictly between the first and the last token of toks.
Between(toks) == SubSeq(toks, 2, Len(toks) - 1)

\* The token sequence toks parses completely at the additive level.
ParsesAdditive(toks) ==
    LET r == parse_additive_expr(toks, 1) IN r.ok /\ r.pos = Len(toks) + 1

(* C11 as stated: when the tokens are | E | and E parses completely at the
   additive level to a tree e, parse returns Abs(e), also when E is a single
   identifier or ends with one (|x|, |2 + x|). *)
C11_BarsParseToAbs ==
    /\ parsed # <<>> /\ Len(tokens) >= 2
       /\ tokens[1] = Op("Pipe") /\ tokens[Len(tokens)] = Op("Pipe")
       /\ ParsesAdditive(Between(tokens))
       => parsed[1] = [ok |-> TRUE, expr |-> Abs(parse_additive_expr(Between(tokens), 1).expr)]
    /\ parsed # <<>> /\ tokens = <<Op("Pipe"), Id("x"), Op("Pipe")>>
       => parsed[1] = [ok |-> TRUE, expr |-> Abs(Identifier("x"))]

\* The tree t with every outermost node equal to old replaced by new.
RECURSIVE Substituted(_, _, _)
Substituted(t, old, new) ==
    IF t = old THEN new
    ELSE CASE t.tag \in {"BoolOp", "BinCmp", "BinOp", "Pow"} ->
                  [t EXCEPT !.l = Substituted(t.l, old, new), !.r = Substituted(t.r, old, new)]
           [] t.tag \in {"BoolNot", "Neg", "Abs", "Factorial", "Function", "Assignment"} ->
                  [t EXCEPT !.e = Substituted(t.e, old, new)]
           [] OTHER -> t

\* The number of nodes of t equal to old and not inside another such node.
RECURSIVE Instances(_, _)
Instances(t, old) ==
    IF t = old THEN 1
    ELSE CASE t.tag \in {"BoolOp", "BinCmp", "BinOp", "Pow"} ->
                  Instances(t.l, old) + Instances(t.r, old)
           [] t.tag \in {"BoolNot", "Neg", "Abs", "Factorial", "Function", "Assignment"} ->
                  Instances(t.e, old)
           [] OTHER -> 0

(* C12 as stated: replace(old, new, false) turns every node of the tree that
   equals old and is not inside another such node into new, whatever the
   variants of its ancestors, and returns the number of those nodes; for
   Identifier(x) in the tree of `x^2 * 4` with new = Constant(20) it returns 1
   and the tree then computes to 1600. *)
C12_ReplacesAllInstances ==
    replaced # <<>> /\ ~replaced[1].ignore_fields =>
        /\ tree = Substituted(before, target, substitute)
        /\ replaced[1].count = Instances(before, target)
        /\ before = parse(XSquaredTimes4).expr /\ target = X /\ substitute = N(20)
           => /\ replaced[1].count = 1
              /\ Computed => result = OkResult(Int2Num(1600))

\* The expression after the `(` at position k parsed and the token after it is
\* not `)`.
MissingRParen(toks, k) ==
    /\ toks[k] = Op("LParen")
    /\ LET inner == parse_additive_expr(toks, k + 1) IN
       inner.ok /\ ~PeekIsOperator(toks, inner.pos, "RParen")

(* C13 as stated: when the expression between `(` and `)` fails to parse,
   parse returns that inner error; parse returns ExpectedClosingParenthesis
   only when the expression after some `(` parsed and the token after it is
   not `)`, so not for `( )`. *)
C13_InnerErrorReturned ==
    parsed # <<>> /\ preprocess(tokens) = <<>> =>
        /\ Len(tokens) >= 1 /\ tokens[1] = Op("LParen")
           /\ ~parse_additive_expr(tokens, 2).ok
           => parsed[1] = [ok |-> FALSE, err |-> parse_additive_expr(tokens, 2).err]
        /\ parsed[1] = [ok |-> FALSE, err |-> ExpectedClosingParenthesis]
           => \E k \in 1..Len(tokens) : MissingRParen(tokens, k)
        /\ tokens = <<Op("LParen"), Op("RParen")>>
           => parsed[1] # [ok |-> FALSE, err |-> ExpectedClosingParenthesis]

\* The last call computed a tree and returned a ComputeError.
Failed == Computed /\ result.kind = "Err"

\* The binding of id, <<>> when id is unbound.
Binding(store, id) == IF IsBound(store, id) THEN <<store[id]>> ELSE <<>>

(* C14 as stated: a compute call that returns an error leaves the variable
   store as it was before the call, also when the failing tree has
   Assignment sub-expressions evaluated before the error. *)
C14_ErrorLeavesStore == Failed => variables = pre

(* C14 amended: a compute call that returns an error does not bind ans and
   leaves every name the tree does not assign, and every constant, as it was;
   a name whose binding it changed is one an Assignment of the tree names, was
   not constant and is now bound non-constant.  Assignments evaluated before
   the error are kept: after computing foo(a = 1), foo unregistered, a is
   bound to (1, not constant). *)
C14_ErrorKeepsEarlierAssignments ==
    /\ Failed =>
           \A id \in (DOMAIN pre) \cup (DOMAIN variables) \cup AllNames :
               Binding(variables, id) # Binding(pre, id)
               => /\ AssignsTo(ast[1], id)
                  /\ ~IsConstant(pre, id)
                  /\ IsBound(variables, id) /\ ~variables[id][2]
    /\ Computed /\ ast[1] = Function("foo", Assignment("a", N(1))) /\ ~IsConstant(pre, "a")
       => /\ result = ErrResult(UnrecognizedFunctionIdentifier("foo"))
          /\ variables = Insert(pre, "a", <<One, FALSE>>)

C14_Witness ==
    /\ ast = <<Function("foo", Assignment("a", N(1)))>>
    /\ result = ErrResult(UnrecognizedFunctionIdentifier("foo"))
    /\ ~IsBound(pre, "a")
    /\ variables = Insert(pre, "a", <<One, FALSE>>)

====
